---- MODULE Spec2Model ----
(***************************************************************************)
(* Model of opt/renameclasses/RenameClassesV2.cpp: the class renamer of    *)
(* redex.  eval_pass decides which classes keep their name, run_pass       *)
(* renames the others to LX/<base-62 identifier>; and propagates the new   *)
(* names to array types, Signature annotations and the mapping file.       *)
(*                                                                         *)
(* C strings are TLA+ strings; a character is a string of length one, and  *)
(* characters are ordered and computed with by their ASCII code.           *)
(***************************************************************************)
EXTENDS Integers, Sequences, FiniteSets, TLC

(***************************************************************************)
(* Characters and C strings                                                *)
(***************************************************************************)

\* Printable ASCII, codes 33..126, so that Ascii[c - 32] is the character c
\* (codes 34, 92 and 96 are spelled out: they never occur in a name).
Ascii ==
  << "!", "DQUOTE", "#", "$", "%", "&", "'", "(", ")", "*", "+", ",", "-", ".", "/",
     "0", "1", "2", "3", "4", "5", "6", "7", "8", "9", ":", ";", "<", "=", ">", "?",
     "@", "A", "B", "C", "D", "E", "F", "G", "H", "I", "J", "K", "L", "M", "N", "O",
     "P", "Q", "R", "S", "T", "U", "V", "W", "X", "Y", "Z", "[", "BSLASH", "]", "^", "_",
     "GRAVE", "a", "b", "c", "d", "e", "f", "g", "h", "i", "j", "k", "l", "m", "n", "o",
     "p", "q", "r", "s", "t", "u", "v", "w", "x", "y", "z", "{", "|", "}", "~" >>

\* The character with ASCII code c.
Chr(c) == Ascii[c - 32]

\* The ASCII code of character ch.
Ord(ch) == CHOOSE c \in 33..126 : Ascii[c - 32] = ch

\* strlen
strlen(s) == Len(s)

\* s[i], 0-based.
CharAt(s, i) == SubSeq(s, i + 1, i + 1)

\* The suffix of s that starts at 0-based offset i.
StrFrom(s, i) == SubSeq(s, i + 1, Len(s))

\* TRUE iff pat occurs in s at 0-based offset i.
OccursAt(s, pat, i) ==
  /\ i >= 0
  /\ i + Len(pat) <= Len(s)
  /\ SubSeq(s, i + 1, i + Len(pat)) = pat

\* strstr(s, pat) != NULL
strstr(s, pat) == \E i \in 0..Len(s) : OccursAt(s, pat, i)

\* std::string::rfind(pat): the highest offset at which pat occurs, npos (-1) if none.
rfind(s, pat) ==
  LET hits == { i \in 0..Len(s) : OccursAt(s, pat, i) }
  IN  IF hits = {} THEN -1 ELSE CHOOSE i \in hits : \A j \in hits : j <= i

\* strcmp(a, b) < 0 : a sorts before b, byte by byte.
RECURSIVE StrLess(_, _)
StrLess(a, b) ==
  IF b = "" THEN FALSE
  ELSE IF a = "" THEN TRUE
  ELSE IF CharAt(a, 0) # CharAt(b, 0) THEN Ord(CharAt(a, 0)) < Ord(CharAt(b, 0))
  ELSE StrLess(StrFrom(a, 1), StrFrom(b, 1))

\* n copies of character ch.
RECURSIVE Repeat(_, _)
Repeat(ch, n) == IF n <= 0 THEN "" ELSE ch \o Repeat(ch, n - 1)

(***************************************************************************)
(* Program constants                                                       *)
(***************************************************************************)

MAX_DESCRIPTOR_LENGTH == 1024
MAX_IDENT_CHAR == 62
BASE == MAX_IDENT_CHAR
MAX_IDENT == MAX_IDENT_CHAR * MAX_IDENT_CHAR * MAX_IDENT_CHAR

(***************************************************************************)
(* Bounds of the model                                                     *)
(***************************************************************************)

\* get_next_ident is applied below 0 and above MAX_IDENT by this many values.
IdentSlack == 2
\* ... and to this many values on each side of 0, BASE^2 and BASE^3,
IdentWindow == 200
\* ... and to every multiple of this stride in 0..MAX_IDENT.
IdentStride == 61
\* Array types of a class are known up to this dimension.
MaxDim == 3
\* The wide scopes hold 1 class, or BASE classes and up to this many more.
WideExtra == 2
\* Every address order is tried for a map of up to this many keys; for a
\* larger map, the order of the scope and its reverse.
MaxPermuted == 5
\* eval_pass runs at most this many times before run_pass.
MaxEvals == 2

(***************************************************************************)
(* The identifier encoder                                                  *)
(***************************************************************************)

\* C integer division: truncates toward zero.
CDiv(a, b) == IF a >= 0 THEN a \div b ELSE -((-a) \div b)

\* assert(num >= 0 && num < BASE): a no-op when the build defines NDEBUG.
getident_assert(n, nd) == nd \/ (n >= 0 /\ n < BASE)

\* getident with the lower-case letters before the upper-case ones.
getident_lower_first(n) ==
  IF n < 10 THEN Chr(48 + n)
  ELSE IF n >= 10 /\ n < 36 THEN Chr(97 + n - 10)
  ELSE Chr(65 + n - 26 - 10)

\* getident(num): the character of digit num.
getident(n) ==
  IF n < 10 THEN Chr(48 + n)
  ELSE IF n >= 10 /\ n < 36 THEN Chr(65 + n - 10)
  ELSE Chr(97 + n - 26 - 10)

\* get_next_ident(out, num) in a build with NDEBUG = nd: the string written
\* to out, or an abort by always_assert_log / assert.
get_next_ident(n, nd) ==
  LET low0 == n
      mid0 == CDiv(n, BASE)
      top  == CDiv(mid0, BASE)
      low1 == IF top # 0 THEN low0 - (top * BASE * BASE) ELSE low0
      mid1 == IF mid0 # 0 THEN mid0 - (top * BASE) ELSE mid0
      low2 == IF mid0 # 0 THEN low1 - (mid1 * BASE) ELSE low1
      asserts == /\ (top # 0 => getident_assert(top, nd))
                 /\ (mid0 # 0 => getident_assert(mid1, nd))
                 /\ getident_assert(low2, nd)
  IN  IF ~(n <= MAX_IDENT) THEN [abort |-> TRUE, str |-> ""]
      ELSE IF ~asserts THEN [abort |-> TRUE, str |-> ""]
      ELSE [abort |-> FALSE,
            str |-> (IF top # 0 THEN getident(top) ELSE "")
                    \o (IF mid0 # 0 THEN getident(mid1) ELSE "")
                    \o getident(low2)]

(***************************************************************************)
(* The program under transformation                                        *)
(*                                                                         *)
(* A class and a type are identified by the descriptor they were loaded    *)
(* with; tname holds a type's current name.  The classes below are the     *)
(* ones the scopes of the model are drawn from.                            *)
(***************************************************************************)

\* Annotation types.
SignatureAnno == "Ldalvik/annotation/Signature;"
InnerClassAnno == "Ldalvik/annotation/InnerClass;"
KeepAnno == "Lk/Keep;"
AlsoAnno == "Lk/Also;"
OtherAnno == "Lx/Other;"

\* A type with reflection-capable methods, and the name it has when obfuscated.
ReflType == "Lr/Refl;"
ReflObfName == "Lr/O;"

\* Scopes: the class lists build_class_scope can deliver.
ScopeOrder == << "La/Canary;", "La/Kn;", "La/Kh;", "La/La/X;" >>
ScopeHier == << "Lh/B;", "Lh/C1;", "Lh/C2;", "Lh/D;" >>
ScopeNative == << "Ln/N;", "Ln/T;", "Ln/U;", "Ln/Q;", "Ln/R;" >>
ScopeSig == << "Lcom/a/Foo;", "Lcom/a/Bar;", "Lcom/a/Baz;", "Lcom/a/Qux;" >>

\* The i-th class of a wide scope: "Lw/C00;", "Lw/C01;", ...
WideClass(i) == "Lw/C" \o Chr(48 + (i \div 10)) \o Chr(48 + (i % 10)) \o ";"

\* The scope of n such classes.
ScopeWide(n) == [i \in 1..n |-> WideClass(i)]

Range(f) == { f[i] : i \in DOMAIN f }

\* Classes that are loaded but in no scope (external or library classes).
OutsideClasses == { "La/Root;", "Lh/I;", ReflType, KeepAnno, AlsoAnno }

\* Every DexClass there is: type_class(t) != nullptr iff t is one of these.
AllClasses ==
  Range(ScopeOrder) \cup Range(ScopeHier) \cup Range(ScopeNative)
    \cup Range(ScopeSig) \cup Range(ScopeWide(BASE + WideExtra)) \cup OutsideClasses

\* DexClass::get_super_class, "" for none.
Super(c) ==
  CASE c \in {"La/Canary;", "La/Kn;", "La/Kh;"} -> "La/Root;"
    [] c = "Lh/C1;" -> "Lh/B;"
    [] c = "Lh/C2;" -> "Lh/C1;"
    [] OTHER -> ""

\* DexClass::get_interfaces.
Interfaces(c) == IF c = "Lh/D;" THEN {"Lh/I;"} ELSE {}

\* is_annotation(clazz): the class is an annotation type.
is_annotation(c) == c \in {"La/Canary;", "La/Kn;", "La/Kh;", KeepAnno, AlsoAnno}

\* A method: its access bit ACC_NATIVE, its list (direct or virtual), its
\* proto, and the (callee class, is_concrete) pairs of its invoke opcodes.
Method(nat, dir, rt, as, cs) ==
  [native |-> nat, direct |-> dir, rtype |-> rt, args |-> as, calls |-> cs]

\* The methods of a class, get_dmethods() and get_vmethods() together.
Methods(c) ==
  CASE c \in {"La/Canary;", "La/Kn;"} ->
         { Method(TRUE, TRUE, "V", << >>, {<<ReflType, TRUE>>}) }
    [] c = "La/Kh;" ->
         { Method(FALSE, FALSE, "V", << >>, {<<ReflType, TRUE>>, <<"La/Root;", FALSE>>}) }
    [] c = "La/La/X;" ->
         { Method(FALSE, TRUE, "V", <<"I">>, {<<ReflType, FALSE>>}) }
    [] c = "Ln/N;" ->
         { Method(TRUE, TRUE, "[Ln/T;", <<"[[Ln/U;">>, {}),
           Method(TRUE, FALSE, "V", <<"[Ln/Q;", "I">>, {}) }
    [] c = "Ln/R;" ->
         { Method(FALSE, TRUE, "Ln/R;", <<"Ln/U;", "[Ln/T;">>, {}) }
    [] OTHER -> {}

\* An encoded value, an annotation element and an annotation.
EvString(s) == [evtype |-> "DEVT_STRING", string |-> s]
EvInt(n) == [evtype |-> "DEVT_INT", value |-> n]
EvArray(evs) == [evtype |-> "DEVT_ARRAY", evalues |-> evs]
Elem(n, ev) == [string |-> n, encoded_value |-> ev]
Anno(t, elems) == [type |-> t, elems |-> elems]

\* The annotations a class is loaded with (its own and its members', in
\* walk_annotations order).
LoadedAnnos(c) ==
  CASE c \in {"La/Canary;", "La/Kn;", "La/Kh;"} ->
         << Anno(KeepAnno, << >>), Anno(AlsoAnno, << >>) >>
    [] c = "Lcom/a/Foo;" ->
         << Anno(SignatureAnno,
                 << Elem("value",
                         EvArray(<< EvString("Lcom/a/Foo"), EvString("<"),
                                    EvString("Lcom/a/Bar;"), EvString(">"),
                                    EvString("[Lcom/a/Foo;"), EvInt(7),
                                    EvString("Lcom/a/Qux;") >>)),
                    Elem("other", EvString("Lcom/a/Bar;")) >>) >>
    [] c = "Lcom/a/Bar;" ->
         << Anno(OtherAnno,
                 << Elem("value", EvArray(<< EvString("Lcom/a/Bar;") >>)) >>),
            Anno(SignatureAnno,
                 << Elem("value",
                         EvArray(<< EvString("[[Lcom/a/Foo;"), EvString("Lcom/a/Baz"),
                                    EvString("Lcom/a/Baz;") >>)) >>) >>
    [] c = "Lcom/a/Baz;" ->
         << Anno(InnerClassAnno,
                 << Elem("name", EvString("Baz")), Elem("accessFlags", EvInt(10)) >>) >>
    [] OTHER -> << >>

\* The strings of the loaded annotations of the classes in cs.
RECURSIVE EvStrings(_)
EvStrings(ev) ==
  IF ev.evtype = "DEVT_STRING" THEN {ev.string}
  ELSE IF ev.evtype = "DEVT_ARRAY"
    THEN UNION { EvStrings(ev.evalues[i]) : i \in DOMAIN ev.evalues }
  ELSE {}

AnnoStrings(cs) ==
  UNION { UNION { UNION { EvStrings(LoadedAnnos(c)[a].elems[e].encoded_value)
                          : e \in DOMAIN LoadedAnnos(c)[a].elems }
                  : a \in DOMAIN LoadedAnnos(c) }
          : c \in cs }

\* The access of a class and of its members when loaded.
LoadedAccess(c) ==
  CASE c \in {"La/Kn;", "Lh/C1;", "Ln/T;", "Lcom/a/Bar;"} ->
         [class |-> "package", members |-> <<"package", "private">>]
    [] c \in {"La/Kh;", "Lcom/a/Baz;"} ->
         [class |-> "private", members |-> <<"protected", "package">>]
    [] OTHER -> [class |-> "public", members |-> <<"public">>]

\* The (const-string, Class.forName invoke-static) pairs walk_matching_opcodes
\* reports: the string, const-string's dest register, the invoke's src(0).
ForNameSites ==
  { [string |-> "a.Kh", dest |-> 1, src |-> 1],
    [string |-> "a.Kn", dest |-> 0, src |-> 0],
    [string |-> "a.Canary", dest |-> 2, src |-> 2],
    [string |-> "a.La.X", dest |-> 1, src |-> 3] }

\* What the resource readers of the collaborator find under apk_dir.
get_manifest_classes == { "La/Canary;" }
get_layout_classes == { "La/Kn;" }
get_native_classes == { "La/Kh;", "Lzz/Gone;" }

\* The types of the program other than its classes: primitives, a type
\* without a class, and the array types of the native protos.
OtherTypes == { "V", "I", "Lh/NoCls;", SignatureAnno, InnerClassAnno, OtherAnno,
                "[Ln/T;", "[[Ln/U;", "[Ln/Q;" }

\* "[" ^ d \o name: the descriptor of the d-dimensional array of name.
ArrayName(name, d) == Repeat("[", d) \o name

(***************************************************************************)
(* State                                                                   *)
(***************************************************************************)

VARIABLES
  input,      \* the run's inputs: scope, pass configuration, collaborator data
  pc,         \* "idle", "evaluated", "committed" or "aborted"
  evals,      \* number of eval_pass calls so far
  m_dont_rename_reasons,  \* class -> [code, rule], for the excluded classes
  s_sequence,             \* static: next identifier
  s_padding,              \* static: padding width
  s_base_strings_size,    \* static: bytes of the old names
  s_ren_strings_size,     \* static: bytes of the new names
  tname,      \* DexType::m_name: type -> current name
  ttable,     \* the type table behind DexType::get_type: name -> type
  strings,    \* the string pool behind DexString::get_string
  aliases,    \* the AliasMap of the last rename_classes
  annos,      \* class -> its annotations
  access,     \* class -> access of the class and of its members
  metrics,    \* PassManager metrics: name -> count
  mapfile,    \* the rename file: written flag and lines
  num,        \* the argument of a get_next_ident call under test
  ndebug,     \* TRUE iff the build defines NDEBUG (assert compiled out)
  out         \* what the call under test produced, once called

vars == << input, pc, evals, m_dont_rename_reasons, s_sequence, s_padding,
           s_base_strings_size, s_ren_strings_size, tname, ttable, strings,
           aliases, annos, access, metrics, mapfile, num, ndebug, out >>

(***************************************************************************)
(* Collaborators                                                           *)
(***************************************************************************)

\* DexType::get_type(name): the type of that name, "" for nullptr.
get_type(tt, name) == IF name \in DOMAIN tt THEN tt[name] ELSE ""

\* type_class(type): the class of the type, "" for nullptr.
type_class(t) == IF t \in AllClasses THEN t ELSE ""

\* is_array(type)
is_array(name) == Len(name) > 0 /\ CharAt(name, 0) = "["

\* get_array_type(type): the type with one array dimension stripped.
get_array_type(name) == StrFrom(name, 1)

\* JavaNameUtil::external_to_internal: "a.b.C" -> "La/b/C;".
RECURSIVE DotsToSlashes(_)
DotsToSlashes(s) ==
  IF s = "" THEN ""
  ELSE (IF CharAt(s, 0) = "." THEN "/" ELSE CharAt(s, 0)) \o DotsToSlashes(StrFrom(s, 1))

external_to_internal(s) == "L" \o DotsToSlashes(s) \o ";"

\* ProguardMap::translate_class: the deobfuscated name, "" when unmapped.
translate_class(s) == IF s = ReflObfName THEN ReflType ELSE ""

\* The superclasses and interfaces of c, transitively.
RECURSIVE Ancestors(_)
Ancestors(c) ==
  LET up == (IF Super(c) = "" THEN {} ELSE {Super(c)}) \cup Interfaces(c)
  IN  up \cup UNION { Ancestors(u) : u \in up }

\* get_all_children_and_implementors(scope, base_class, &result)
get_all_children_and_implementors(base) ==
  { c \in AllClasses : base \in Ancestors(c) }

\* PassManager::incr_metric(name, n)
incr_metric(m, name, n) ==
  IF name \in DOMAIN m THEN [m EXCEPT ![name] = @ + n] ELSE m @@ (name :> n)

(***************************************************************************)
(* The exclusion detectors                                                 *)
(***************************************************************************)

METRIC_CLASSES_IN_SCOPE == "num_classes_in_scope"
METRIC_RENAMED_CLASSES == "**num_renamed**"
METRIC_MISSING_HIERARCHY_TYPES == "num_missing_hierarchy_types"
METRIC_MISSING_HIERARCHY_CLASSES == "num_missing_hierarchy_classes"

build_dont_rename_resources(in, tt) ==
  IF Len(in.apk_dir) > 0
    THEN get_manifest_classes \cup get_layout_classes
           \cup { n \in get_native_classes : get_type(tt, n) # "" }
    ELSE {}

build_dont_rename_class_for_name_literals(in) ==
  { external_to_internal(site.string) :
      site \in { x \in in.forname_sites : x.dest = x.src } }

build_dont_rename_for_types_with_reflection(in, tt, tn) ==
  LET cfgl == in.dont_rename_types_with_reflection
      deobf(s) == IF translate_class(s) = "" THEN s ELSE translate_class(s)
      refl_map == { get_type(tt, deobf(cfgl[i])) : i \in DOMAIN cfgl } \ {""}
  IN  { tn[c] : c \in { k \in Range(in.scope) :
                        \E m \in Methods(k) : \E call \in m.calls :
                          call[2] /\ call[1] \in refl_map } }

build_dont_rename_canaries(in, tn) ==
  { tn[c] : c \in { k \in Range(in.scope) : strstr(tn[k], "/Canary") } }

\* The first loop without the test for comments.
RECURSIVE hierarchy_bases_without_comments(_, _, _, _, _)
hierarchy_bases_without_comments(roots, i, tt, bases, m) ==
  IF i > Len(roots) THEN [base_classes |-> bases, metrics |-> m]
  ELSE IF get_type(tt, roots[i]) # ""
    THEN IF type_class(get_type(tt, roots[i])) = ""
           THEN hierarchy_bases_without_comments(roots, i + 1, tt, bases,
                  incr_metric(m, METRIC_MISSING_HIERARCHY_CLASSES, 1))
           ELSE hierarchy_bases_without_comments(roots, i + 1, tt,
                  Append(bases, type_class(get_type(tt, roots[i]))), m)
  ELSE hierarchy_bases_without_comments(roots, i + 1, tt, bases,
         incr_metric(m, METRIC_MISSING_HIERARCHY_TYPES, 1))

\* The first loop of build_dont_rename_hierarchies, from entry i of the
\* configuration on: the resolved base classes and the metrics.
RECURSIVE hierarchy_bases(_, _, _, _, _)
hierarchy_bases(roots, i, tt, bases, m) ==
  IF i > Len(roots) THEN [base_classes |-> bases, metrics |-> m]
  ELSE IF Len(roots[i]) > 0 /\ CharAt(roots[i], 0) = "#"
    THEN hierarchy_bases(roots, i + 1, tt, bases, m)
  ELSE IF get_type(tt, roots[i]) # ""
    THEN IF type_class(get_type(tt, roots[i])) = ""
           THEN hierarchy_bases(roots, i + 1, tt, bases,
                                incr_metric(m, METRIC_MISSING_HIERARCHY_CLASSES, 1))
           ELSE hierarchy_bases(roots, i + 1, tt,
                                Append(bases, type_class(get_type(tt, roots[i]))), m)
  ELSE hierarchy_bases(roots, i + 1, tt, bases,
                       incr_metric(m, METRIC_MISSING_HIERARCHY_TYPES, 1))

\* dont_rename_hierarchies[t] = base_name for every t in covered.
hierarchy_assign(map, covered, base_name) ==
  [t \in DOMAIN map \cup covered |-> IF t \in covered THEN base_name ELSE map[t]]

\* The second loop, from base class i on: type -> rule.
RECURSIVE hierarchy_map(_, _, _, _)
hierarchy_map(bases, i, tn, map) ==
  IF i > Len(bases) THEN map
  ELSE hierarchy_map(bases, i + 1, tn,
         hierarchy_assign(map,
                          {bases[i]} \cup get_all_children_and_implementors(bases[i]),
                          tn[bases[i]]))

\* The metrics after build_dont_rename_hierarchies.
build_dont_rename_hierarchies_metrics(in, tt, m) ==
  hierarchy_bases(in.dont_rename_hierarchies, 1, tt, << >>, m).metrics

\* The map build_dont_rename_hierarchies fills.
build_dont_rename_hierarchies(in, tt, tn) ==
  hierarchy_map(hierarchy_bases(in.dont_rename_hierarchies, 1, tt, << >>, << >>).base_classes,
                1, tn, << >>)

\* The types one native method adds.
native_method_types(c, meth) ==
  {c} \cup {meth.rtype}
      \cup { (IF is_array(meth.args[i]) THEN get_array_type(meth.args[i])
              ELSE meth.args[i]) : i \in DOMAIN meth.args }

build_dont_rename_native_bindings(in) ==
  UNION { UNION { native_method_types(c, meth) :
                  meth \in { x \in Methods(c) : x.native } }
          : c \in Range(in.scope) }

build_dont_rename_annotated(in, tt) ==
  { get_type(tt, in.dont_rename_annotated[i]) : i \in DOMAIN in.dont_rename_annotated }
    \ {""}

\* has_anno(clazz, anno_type)
has_anno(an, c, anno_type) ==
  anno_type # "" /\ \E i \in DOMAIN an[c] : an[c][i].type = anno_type

\* The first element, in dextypes_comparator (name) order, of a set of types.
first_by_name(ts, tn) ==
  CHOOSE t \in ts : \A u \in ts \ {t} : StrLess(tn[t], tn[u])

\* The first package of the list that blacklists the class name, 0 if none.
RECURSIVE package_hit(_, _, _)
package_hit(pkgs, i, strname) ==
  IF i > Len(pkgs) THEN 0
  ELSE IF rfind(strname, "L" \o pkgs[i]) = 0 THEN i
  ELSE package_hit(pkgs, i + 1, strname)

\* can_rename_if_ignoring_blanket_keep(clazz): the keep-rule oracle.
can_rename_if_ignoring_blanket_keep(in, c) == c \notin in.keep

Reason(code, rule) == [code |-> code, rule |-> rule]

\* The sets eval_classes builds before its loop.
dont_rename_sets(in, tt, tn) ==
  [resources |-> build_dont_rename_resources(in, tt),
   class_for_name_literals |-> build_dont_rename_class_for_name_literals(in),
   class_for_types_with_reflection |->
     build_dont_rename_for_types_with_reflection(in, tt, tn),
   canaries |-> build_dont_rename_canaries(in, tn),
   hierarchies |-> build_dont_rename_hierarchies(in, tt, tn),
   native_bindings |-> build_dont_rename_native_bindings(in),
   annotated |-> build_dont_rename_annotated(in, tt)]

\* The loop body with the hierarchy check placed before the native-bindings
\* check.
eval_class_hierarchy_first(in, S, tn, clazz, clsname, annos_hit, pkg) ==
  IF ~in.rename_annotations /\ is_annotation(clazz)
    THEN Reason("Annotations", "")
  ELSE IF annos_hit # {}
    THEN Reason("Annotated", tn[first_by_name(annos_hit, tn)])
  ELSE IF clsname \in S.resources
    THEN Reason("Resources", "")
  ELSE IF clsname \in in.dont_rename_specific
    THEN Reason("Specific", clsname)
  ELSE IF pkg # 0
    THEN Reason("Packages", in.dont_rename_packages[pkg])
  ELSE IF clsname \in S.class_for_name_literals
    THEN Reason("ClassForNameLiterals", "")
  ELSE IF clsname \in S.class_for_types_with_reflection
    THEN Reason("ClassForTypesWithReflection", "")
  ELSE IF clsname \in S.canaries
    THEN Reason("Canaries", "")
  ELSE IF clazz \in DOMAIN S.hierarchies
    THEN Reason("Hierarchy", S.hierarchies[clazz])
  ELSE IF clazz \in S.native_bindings
    THEN Reason("NativeBindings", "")
  ELSE IF ~can_rename_if_ignoring_blanket_keep(in, clazz)
    THEN Reason("ProguardCantRename", "")
  ELSE Reason("none", "")

\* The body of the loop of eval_classes for clazz, named clsname, given the
\* configured annotations it carries and the index of the package that
\* blacklists it: the reason recorded, code "none" when it falls through.
eval_class_named(in, S, tn, clazz, clsname, annos_hit, pkg) ==
  IF ~in.rename_annotations /\ is_annotation(clazz)
    THEN Reason("Annotations", "")
  ELSE IF annos_hit # {}
    THEN Reason("Annotated", tn[first_by_name(annos_hit, tn)])
  ELSE IF clsname \in S.resources
    THEN Reason("Resources", "")
  ELSE IF clsname \in in.dont_rename_specific
    THEN Reason("Specific", clsname)
  ELSE IF pkg # 0
    THEN Reason("Packages", in.dont_rename_packages[pkg])
  ELSE IF clsname \in S.class_for_name_literals
    THEN Reason("ClassForNameLiterals", "")
  ELSE IF clsname \in S.class_for_types_with_reflection
    THEN Reason("ClassForTypesWithReflection", "")
  ELSE IF clsname \in S.canaries
    THEN Reason("Canaries", "")
  ELSE IF clazz \in S.native_bindings
    THEN Reason("NativeBindings", "")
  ELSE IF clazz \in DOMAIN S.hierarchies
    THEN Reason("Hierarchy", S.hierarchies[clazz])
  ELSE IF ~can_rename_if_ignoring_blanket_keep(in, clazz)
    THEN Reason("ProguardCantRename", "")
  ELSE Reason("none", "")

\* One iteration of the loop of eval_classes.
eval_class(in, S, tn, an, clazz) ==
  eval_class_named(in, S, tn, clazz, tn[clazz],
                   { a \in S.annotated : has_anno(an, clazz, a) },
                   package_hit(in.dont_rename_packages, 1, tn[clazz]))

\* The record with the class name as rule, whatever the code.
record_reason_with_class_name(reasons, clazz, r) ==
  IF r.code = "none" THEN reasons
  ELSE [c \in DOMAIN reasons \cup {clazz} |->
          IF c = clazz THEN [code |-> r.code, rule |-> clazz] ELSE reasons[c]]

\* m_dont_rename_reasons[clazz] = r, unless the loop body fell through.
record_reason(reasons, clazz, r) ==
  IF r.code = "none" THEN reasons
  ELSE [c \in DOMAIN reasons \cup {clazz} |-> IF c = clazz THEN r ELSE reasons[c]]

\* The loop of eval_classes, from class i of the scope on.
RECURSIVE eval_loop(_, _, _, _, _, _)
eval_loop(in, S, tn, an, reasons, i) ==
  IF i > Len(in.scope) THEN reasons
  ELSE eval_loop(in, S, tn, an,
                 record_reason(reasons, in.scope[i],
                               eval_class(in, S, tn, an, in.scope[i])),
                 i + 1)

\* eval_classes: the new m_dont_rename_reasons.
eval_classes(in, tt, tn, an, reasons) ==
  eval_loop(in, dont_rename_sets(in, tt, tn), tn, an, reasons, 1)

\* eval_pass
EvalPass ==
  /\ pc \in {"idle", "evaluated"}
  /\ evals < MaxEvals
  /\ m_dont_rename_reasons' =
       eval_classes(input, ttable, tname, annos, m_dont_rename_reasons)
  /\ metrics' = build_dont_rename_hierarchies_metrics(input, ttable, metrics)
  /\ pc' = "evaluated"
  /\ evals' = evals + 1
  /\ UNCHANGED << input, s_sequence, s_padding, s_base_strings_size,
                  s_ren_strings_size, tname, ttable, strings, aliases, annos,
                  access, mapfile, num, ndebug, out >>

(***************************************************************************)
(* The commit phase                                                        *)
(***************************************************************************)

dont_rename_reason_to_metric(code) ==
  CASE code = "Annotated" -> "num_dont_rename_annotated"
    [] code = "Annotations" -> "num_dont_rename_annotations"
    [] code = "Specific" -> "num_dont_rename_specific"
    [] code = "Packages" -> "num_dont_rename_packages"
    [] code = "Hierarchy" -> "num_dont_rename_hierarchy"
    [] code = "Resources" -> "num_dont_rename_resources"
    [] code = "ClassForNameLiterals" -> "num_dont_rename_class_for_name_literals"
    [] code = "Canaries" -> "num_dont_rename_canaries"
    [] code = "NativeBindings" -> "num_dont_rename_native_bindings"
    [] code = "ClassForTypesWithReflection" ->
         "num_dont_rename_class_for_types_with_reflection"
    [] code = "ProguardCantRename" -> "num_dont_rename_pg_cant_rename"

dont_rename_reason_to_metric_per_rule(code) ==
  code \in {"Annotated", "Packages", "Hierarchy"}

\* is_external(clazz)
is_external(c) == c \in OutsideClasses

\* set_public on an access: the visibility bits become ACC_PUBLIC.
set_public(a) == "public"

\* (value & ~VISIBILITY_MASK) | ACC_PUBLIC on the access flags of an
\* InnerClass annotation: the three low bits become 001.
fix_inner_flags(v) == (v \div 8) * 8 + 1

\* unpackage_private on the member and class access of the scope.
unpackage_private_access(in, acc) ==
  [c \in DOMAIN acc |->
     IF c \in Range(in.scope)
       THEN [class |-> IF ~is_external(c) THEN set_public(acc[c].class)
                       ELSE acc[c].class,
             members |-> [i \in DOMAIN acc[c].members |->
                            IF acc[c].members[i] = "package"
                              THEN set_public(acc[c].members[i])
                              ELSE acc[c].members[i]]]
       ELSE acc[c]]

\* unpackage_private on the InnerClass annotations of the scope; ok is FALSE
\* when always_assert(evtype() == DEVT_INT) fails.
unpackage_private_annos(in, tt, an) ==
  LET dalvikinner == get_type(tt, InnerClassAnno)
      touched(c, a) == c \in Range(in.scope) /\ an[c][a].type = dalvikinner
      flags(el) == el.string = "accessFlags"
  IN  [ok |-> \A c \in DOMAIN an : \A a \in DOMAIN an[c] :
                touched(c, a) =>
                  \A e \in DOMAIN an[c][a].elems :
                    flags(an[c][a].elems[e]) =>
                      an[c][a].elems[e].encoded_value.evtype = "DEVT_INT",
       annos |->
         [c \in DOMAIN an |->
            [a \in DOMAIN an[c] |->
               IF touched(c, a)
                 THEN [an[c][a] EXCEPT !.elems =
                         [e \in DOMAIN @ |->
                            IF flags(@[e]) /\ @[e].encoded_value.evtype = "DEVT_INT"
                              THEN [@[e] EXCEPT !.encoded_value.value =
                                      fix_inner_flags(@)]
                              ELSE @[e]]]
                 ELSE an[c][a]]]]

\* std::map::emplace: inserts unless the key is present.
emplace(m, k, v) == IF k \in DOMAIN m THEN m ELSE m @@ (k :> v)

\* AliasMap::has and AliasMap::at
alias_has(al, key) == key \in DOMAIN al.class_name_map \/ key \in DOMAIN al.extras_map
alias_at(al, key) ==
  IF key \in DOMAIN al.class_name_map THEN al.class_name_map[key]
  ELSE al.extras_map[key]

\* DexType::assign_name_alias on the type names and the type table.
assign_name_alias(st, t, new_name) ==
  [st EXCEPT !.tname = [@ EXCEPT ![t] = new_name],
             !.ttable = emplace(@, new_name, t)]

\* The precision of the zero padding sprintf prints before the identifier.
padding_precision(padding, clzname) ==
  IF padding < strlen(clzname) THEN 0 ELSE padding - strlen(clzname)

\* The descriptor without the zero padding.
make_descriptor_unpadded(padding, clzname) == "LX/" \o clzname \o ";"

\* sprintf(descriptor, "LX/%.*s%s;", precision, "0000000000000", clzname)
make_descriptor(padding, clzname) ==
  LET prec == padding_precision(padding, clzname)
  IN  "LX/" \o Repeat("0", IF prec < 13 THEN prec ELSE 13) \o clzname \o ";"

\* The body of the while (1) loop once the next array type is known to exist.
array_alias(st, arraytype, arrayop, newarraytype) ==
  assign_name_alias([st EXCEPT !.strings = @ \cup {newarraytype},
                               !.extras_map = emplace(@, arrayop, newarraytype)],
                    arraytype, newarraytype)

\* The loop leaving after its first iteration.
array_aliases_one_dimension(st, oldname, dstring) ==
  IF ("[" \o oldname) \notin st.strings THEN st
  ELSE IF get_type(st.ttable, "[" \o oldname) = "" THEN st
  ELSE array_alias(st, get_type(st.ttable, "[" \o oldname),
                   "[" \o oldname, "[" \o dstring)

\* The while (1) loop of rename_classes: aliases for the array types of the
\* class just renamed, one dimension at a time.
RECURSIVE array_aliases(_, _, _)
array_aliases(st, oldname, dstring) ==
  IF ("[" \o oldname) \notin st.strings THEN st
  ELSE IF get_type(st.ttable, "[" \o oldname) = "" THEN st
  ELSE array_aliases(array_alias(st, get_type(st.ttable, "[" \o oldname),
                                 "[" \o oldname, "[" \o dstring),
                     "[" \o oldname, "[" \o dstring)

\* The metrics of a class that keeps its name.
count_not_renamed(m, reason) ==
  IF dont_rename_reason_to_metric_per_rule(reason.code)
    THEN incr_metric(incr_metric(m, dont_rename_reason_to_metric(reason.code), 1),
                     dont_rename_reason_to_metric(reason.code) \o "::" \o reason.rule, 1)
    ELSE incr_metric(m, dont_rename_reason_to_metric(reason.code), 1)

\* The loop body from the collision check on: clazz, named oldname, is
\* renamed to descriptor.
rename_to(st, clazz, oldname, descriptor) ==
  IF descriptor \in st.strings
    THEN [st EXCEPT !.ok = FALSE, !.s_sequence = @ + 1]
    ELSE array_aliases(
           assign_name_alias(
             [st EXCEPT !.s_sequence = @ + 1,
                        !.strings = @ \cup {descriptor},
                        !.class_name_map = emplace(@, oldname, descriptor),
                        !.s_base_strings_size = @ + strlen(oldname),
                        !.s_ren_strings_size = @ + strlen(descriptor)],
             clazz, descriptor),
           oldname, descriptor)

\* The loop body from get_next_ident's result on.
rename_with_ident(st, padding, clazz, ident) ==
  IF ident.abort THEN [st EXCEPT !.ok = FALSE]
  ELSE IF ~((padding + strlen("LX/;") + 1) < MAX_DESCRIPTOR_LENGTH)
    THEN [st EXCEPT !.ok = FALSE]
  ELSE rename_to(st, clazz, st.tname[clazz], make_descriptor(padding, ident.str))

\* The iteration with s_sequence advanced for a class that keeps its name too.
rename_class_always_counting(st, reasons, padding, nd, clazz) ==
  IF clazz \in DOMAIN reasons
    THEN [st EXCEPT !.metrics = count_not_renamed(@, reasons[clazz]),
                    !.s_sequence = @ + 1]
    ELSE rename_with_ident(
           [st EXCEPT !.metrics = incr_metric(@, METRIC_RENAMED_CLASSES, 1)],
           padding, clazz, get_next_ident(st.s_sequence, nd))

\* One iteration of the first loop of rename_classes.
rename_class(st, reasons, padding, nd, clazz) ==
  IF clazz \in DOMAIN reasons
    THEN [st EXCEPT !.metrics = count_not_renamed(@, reasons[clazz])]
    ELSE rename_with_ident(
           [st EXCEPT !.metrics = incr_metric(@, METRIC_RENAMED_CLASSES, 1)],
           padding, clazz, get_next_ident(st.s_sequence, nd))

\* The first loop of rename_classes, from class i of the scope on; it stops
\* when an assertion aborts the run.
RECURSIVE rename_loop(_, _, _, _, _, _)
rename_loop(in, st, reasons, padding, nd, i) ==
  IF i > Len(in.scope) \/ ~st.ok THEN st
  ELSE rename_loop(in, rename_class(st, reasons, padding, nd, in.scope[i]),
                   reasons, padding, nd, i + 1)

\* The position of class name k in the scope.
scope_index(sc, k) == CHOOSE i \in DOMAIN sc : sc[i] = k

\* The orders in which the addresses of the DexStrings in keys can lie: the
\* allocator decides, the program does not.
AddressOrders(sc, keys) ==
  IF Cardinality(keys) <= MaxPermuted
    THEN { f \in [keys -> 1..Cardinality(keys)] :
             \A a, b \in keys : a # b => f[a] # f[b] }
    ELSE { [k \in keys |-> scope_index(sc, k)],
           [k \in keys |-> Len(sc) + 1 - scope_index(sc, k)] }

\* The key of keys at the lowest address.
lowest(keys, addr) == CHOOSE x \in keys : \A y \in keys : addr[x] <= addr[y]

\* The keys of a std::map<DexString*, ...> in iteration order: ascending
\* address of the key.
RECURSIVE map_order(_, _)
map_order(keys, addr) ==
  IF keys = {} THEN << >>
  ELSE <<lowest(keys, addr)>> \o map_order(keys \ {lowest(keys, addr)}, addr)

\* The string without its last character.
chop(s) == SubSeq(s, 1, Len(s) - 1)

\* The body of the loop that aliases the names without the trailing ';'.
bare_alias(st, sourcestr) ==
  IF CharAt(sourcestr, strlen(sourcestr) - 1) # ";" THEN st
  ELSE IF chop(sourcestr) \notin st.strings THEN st
  ELSE [st EXCEPT !.strings = @ \cup {chop(st.class_name_map[sourcestr])},
                  !.extras_map = emplace(@, chop(sourcestr),
                                         chop(st.class_name_map[sourcestr]))]

\* That loop, from entry i of the class map on.
RECURSIVE bare_aliases(_, _, _)
bare_aliases(st, order, i) ==
  IF i > Len(order) THEN st
  ELSE bare_aliases(bare_alias(st, order[i]), order, i + 1)

\* The AliasMap the loops have filled.
alias_map(st) == [class_name_map |-> st.class_name_map, extras_map |-> st.extras_map]

\* The rewrite of one entry of the array of a Signature annotation.
rewrite_entry(al, strev) ==
  IF strev.evtype # "DEVT_STRING" THEN strev
  ELSE IF alias_has(al, strev.string)
    THEN [strev EXCEPT !.string = alias_at(al, strev.string)]
  ELSE strev

\* The rewrite applied to annotations of every type.
rewrite_anno_of_any_type(al, dalviksig, anno) ==
  [anno EXCEPT !.elems =
     [e \in DOMAIN @ |->
        IF @[e].encoded_value.evtype # "DEVT_ARRAY" THEN @[e]
        ELSE [@[e] EXCEPT !.encoded_value.evalues =
                [k \in DOMAIN @ |-> rewrite_entry(al, @[k])]]]]

\* The rewrite of one annotation.
rewrite_anno(al, dalviksig, anno) ==
  IF anno.type # dalviksig THEN anno
  ELSE [anno EXCEPT !.elems =
          [e \in DOMAIN @ |->
             IF @[e].encoded_value.evtype # "DEVT_ARRAY" THEN @[e]
             ELSE [@[e] EXCEPT !.encoded_value.evalues =
                     [k \in DOMAIN @ |-> rewrite_entry(al, @[k])]]]]

\* walk_annotations(scope, ...) of rename_classes.
rewrite_signatures(in, tt, al, an) ==
  [c \in DOMAIN an |->
     IF c \in Range(in.scope)
       THEN [a \in DOMAIN an[c] |->
               rewrite_anno(al, get_type(tt, SignatureAnno), an[c][a])]
       ELSE an[c]]

\* DexClass::get_deobfuscated_name
get_deobfuscated_name(c) == c

\* The lines of the rename file.
mapping_lines(tt, class_map, order) ==
  [i \in DOMAIN order |->
     << get_deobfuscated_name(type_class(get_type(tt, order[i]))),
        class_map[order[i]] >>]

\* ConfigFiles::metafile
metafile(basename) == IF basename = "" THEN "" ELSE "meta/" \o basename

\* rename_classes up to the end of its first loop, given the result of
\* unpackage_private on the annotations.
rename_classes_loop(in, st0, reasons, padding, nd, inner) ==
  [st |-> IF inner.ok THEN rename_loop(in, st0, reasons, padding, nd, 1)
          ELSE [st0 EXCEPT !.ok = FALSE],
   annos |-> inner.annos]

\* rename_classes after the alias loops: the Signature rewrite and the file.
\* The sorts of the method and field lists that follow (they are sets here)
\* and sanity_check, which only prints a warning, change nothing of the state.
rename_classes_rewrite(in, st, an, acc, path, order) ==
  [ok |-> st.ok /\ (path = "" \/ in.writable),
   st |-> st,
   aliases |-> alias_map(st),
   access |-> unpackage_private_access(in, acc),
   annos |-> IF st.ok THEN rewrite_signatures(in, st.ttable, alias_map(st), an)
             ELSE an,
   mapfile |-> IF st.ok /\ path # "" /\ in.writable
                 THEN [written |-> TRUE,
                       lines |-> mapping_lines(st.ttable, st.class_name_map, order)]
                 ELSE [written |-> FALSE, lines |-> << >>]]

\* rename_classes from the end of its first loop on, the class map iterating
\* in the given order.
rename_classes_finish(in, looped, acc, path, order) ==
  rename_classes_rewrite(in,
    IF looped.st.ok THEN bare_aliases(looped.st, order, 1) ELSE looped.st,
    looped.annos, acc, path, order)

\* b to the power k.
RECURSIVE pow(_, _)
pow(b, k) == IF k = 0 THEN 1 ELSE b * pow(b, k - 1)

\* The quotient rounded down instead of up: the greatest p >= p0 with
\* BASE^p <= total.
RECURSIVE padding_width_rounded_down(_, _)
padding_width_rounded_down(total, p0) ==
  IF pow(BASE, p0 + 1) > total THEN p0
  ELSE padding_width_rounded_down(total, p0 + 1)

\* std::ceil(std::log(total_classes) / std::log(BASE)), for total_classes >= 1:
\* the least p >= p0 with BASE^p >= total_classes.  (The scopes here are not
\* empty and hold fewer than BASE^2 classes, where the floating-point
\* quotient is exact at total_classes = BASE.)
RECURSIVE padding_width(_, _)
padding_width(total, p0) ==
  IF pow(BASE, p0) >= total THEN p0 ELSE padding_width(total, p0 + 1)

\* The statics as run_pass resets them, and the program state rename_classes
\* starts from.
run_pass_start(m, tn, tt, strs) ==
  [ok |-> TRUE, s_sequence |-> 0, metrics |-> m,
   class_name_map |-> << >>, extras_map |-> << >>,
   tname |-> tn, ttable |-> tt, strings |-> strs,
   s_base_strings_size |-> 0, s_ren_strings_size |-> 0]

\* The state run_pass leaves, r being what rename_classes did.
RunPassEnd(total_classes, padding, r) ==
  /\ s_padding' = padding
  /\ s_sequence' = r.st.s_sequence
  /\ s_base_strings_size' = r.st.s_base_strings_size
  /\ s_ren_strings_size' = r.st.s_ren_strings_size
  /\ tname' = r.st.tname
  /\ ttable' = r.st.ttable
  /\ strings' = r.st.strings
  /\ aliases' = r.aliases
  /\ annos' = r.annos
  /\ access' = r.access
  /\ mapfile' = r.mapfile
  /\ metrics' = IF r.ok
                  THEN incr_metric(r.st.metrics, METRIC_CLASSES_IN_SCOPE, total_classes)
                  ELSE r.st.metrics
  /\ pc' = IF r.ok THEN "committed" ELSE "aborted"

\* run_pass once the first loop of rename_classes is through.
RunPassFrom(total_classes, padding, looped) ==
  \E addr \in AddressOrders(input.scope, DOMAIN looped.st.class_name_map) :
    RunPassEnd(total_classes, padding,
               rename_classes_finish(input, looped, access, metafile(input.path),
                                     map_order(DOMAIN looped.st.class_name_map, addr)))

\* run_pass
RunPass ==
  /\ pc = "evaluated"
  /\ RunPassFrom(Len(input.scope), padding_width(Len(input.scope), 0),
       rename_classes_loop(input, run_pass_start(metrics, tname, ttable, strings),
                           m_dont_rename_reasons,
                           padding_width(Len(input.scope), 0), ndebug,
                           unpackage_private_annos(input, ttable, annos)))
  /\ UNCHANGED << input, evals, m_dont_rename_reasons, num, ndebug, out >>

(***************************************************************************)
(* Inputs and specifications                                               *)
(***************************************************************************)

\* The pass configuration with every list empty, on scope sc.
DefaultInput(sc) ==
  [scope |-> sc,
   rename_annotations |-> TRUE,
   dont_rename_annotated |-> << >>,
   dont_rename_specific |-> {},
   dont_rename_packages |-> << >>,
   dont_rename_types_with_reflection |-> << >>,
   dont_rename_hierarchies |-> << >>,
   path |-> "",
   writable |-> TRUE,
   apk_dir |-> "",
   forname_sites |-> {},
   keep |-> {},
   array_types |-> {},
   extra_strings |-> {}]

\* The classes of the program: its scope and the classes outside it.
Classes(in) == Range(in.scope) \cup OutsideClasses

\* The types known when the pass starts.
KnownTypes(in) == Classes(in) \cup OtherTypes \cup in.array_types

\* The state of a process that has loaded the program and not run the pass.
Loaded(in) ==
  /\ input = in
  /\ pc = "idle"
  /\ evals = 0
  /\ m_dont_rename_reasons = << >>
  /\ s_sequence = 0
  /\ s_padding = 0
  /\ s_base_strings_size = 0
  /\ s_ren_strings_size = 0
  /\ tname = [t \in KnownTypes(in) |-> t]
  /\ ttable = [t \in KnownTypes(in) |-> t]
  /\ strings = KnownTypes(in) \cup AnnoStrings(Classes(in)) \cup in.extra_strings
  /\ aliases = [class_name_map |-> << >>, extras_map |-> << >>]
  /\ annos = [c \in Classes(in) |-> LoadedAnnos(c)]
  /\ access = [c \in Classes(in) |-> LoadedAccess(c)]
  /\ metrics = << >>
  /\ mapfile = [written |-> FALSE, lines |-> << >>]

NotCalled == [called |-> FALSE, abort |-> FALSE, str |-> ""]

\* Inputs in which one class can match every detector.
InitOrder ==
  \E ra \in BOOLEAN,
     an \in { << >>, << "Lk/Nope;", KeepAnno, AlsoAnno >> },
     apk \in { "", "apk" },
     sp \in { {}, {"La/Canary;", "La/Kn;", "La/Kh;"} },
     pk \in { << >>, << "a/" >>, << "b/", "a/K", "a/" >> },
     fn \in { {}, ForNameSites },
     rf \in { << >>, << ReflObfName, "Lr/None;" >> },
     hi \in { << >>, << "La/Root;" >> },
     kp \in { {}, {"La/Canary;", "La/Kn;", "La/Kh;"} } :
    Loaded([DefaultInput(ScopeOrder) EXCEPT
       !.rename_annotations = ra,
       !.dont_rename_annotated = an,
       !.apk_dir = apk,
       !.dont_rename_specific = sp,
       !.dont_rename_packages = pk,
       !.forname_sites = fn,
       !.dont_rename_types_with_reflection = rf,
       !.dont_rename_hierarchies = hi,
       !.keep = kp])

\* Inputs about hierarchy roots.
InitHier ==
  \E hi \in { << >>, << "Lh/B;" >>, << "#Lh/B;" >>, << "Lh/Missing;" >>,
               << "Lh/NoCls;" >>, << "Lh/I;" >>, << "Lh/B;", "Lh/C1;" >>,
               << "Lh/C1;", "Lh/B;" >>, << "Lh/Missing;", "#", "Lh/NoCls;", "Lh/C1;" >> },
     sp \in { {}, {"Lh/C1;"} } :
    Loaded([DefaultInput(ScopeHier) EXCEPT
       !.dont_rename_hierarchies = hi,
       !.dont_rename_specific = sp])

\* Inputs about native methods.
InitNative ==
  \E sp \in { {}, {"Ln/T;"} } :
    Loaded([DefaultInput(ScopeNative) EXCEPT
       !.dont_rename_specific = sp])

\* Inputs about array types, Signature annotations and the rename file.
InitSig ==
  \E sp \in SUBSET {"Lcom/a/Foo;", "Lcom/a/Bar;", "Lcom/a/Baz;"},
     dims \in SUBSET (1..MaxDim),
     pw \in { <<"", TRUE>>, <<"rename.txt", TRUE>>, <<"rename.txt", FALSE>> },
     ex \in { {}, {"LX/1;"} } :
    Loaded([DefaultInput(ScopeSig) EXCEPT
       !.dont_rename_specific = sp,
       !.array_types = { ArrayName("Lcom/a/Foo;", d) : d \in dims },
       !.path = pw[1],
       !.writable = pw[2],
       !.extra_strings = ex])

\* Inputs with one class, and with more classes than one digit can number.
InitWide ==
  \E n \in {1} \cup { BASE + e : e \in 0..WideExtra },
     sp \in { {}, {WideClass(1)}, {WideClass(2)} } :
    Loaded([DefaultInput(ScopeWide(n)) EXCEPT
       !.dont_rename_specific = sp])

Init ==
  /\ (InitOrder \/ InitHier \/ InitNative \/ InitSig \/ InitWide)
  /\ num = 0
  /\ ndebug \in BOOLEAN
  /\ out = NotCalled

Next == EvalPass \/ RunPass

Spec == Init /\ [][Next]_vars

\* The arguments get_next_ident is applied to.
IdentInputs ==
  ((0 - IdentSlack)..IdentWindow)
    \cup ((BASE * BASE - IdentWindow)..(BASE * BASE + IdentWindow))
    \cup ((MAX_IDENT - IdentWindow)..(MAX_IDENT + IdentSlack))
    \cup { n \in 0..MAX_IDENT : n % IdentStride = 0 }

IdentInit ==
  /\ Loaded(DefaultInput(ScopeSig))
  /\ num \in IdentInputs
  /\ ndebug \in BOOLEAN
  /\ out = NotCalled

\* A call get_next_ident(out, num).
CallGetNextIdent ==
  /\ ~out.called
  /\ out' = [called |-> TRUE] @@ get_next_ident(num, ndebug)
  /\ UNCHANGED << input, pc, evals, m_dont_rename_reasons, s_sequence, s_padding,
                  s_base_strings_size, s_ren_strings_size, tname, ttable, strings,
                  aliases, annos, access, metrics, mapfile, num, ndebug >>

IdentNext == CallGetNextIdent

IdentSpec == IdentInit /\ [][IdentNext]_vars

(***************************************************************************)
(* Properties                                                              *)
(***************************************************************************)

\* The type names (and the type table) and the annotations of the program as
\* loaded: what eval_pass reads and what run_pass starts from.
LoadedNames == [t \in KnownTypes(input) |-> t]
LoadedProgramAnnos == [c \in Classes(input) |-> LoadedAnnos(c)]

\* The detectors in the order the specification lists them.
DetectorOrder ==
  << "Annotations", "Annotated", "Resources", "Specific", "Packages",
     "ClassForNameLiterals", "ClassForTypesWithReflection", "Canaries",
     "NativeBindings", "Hierarchy", "ProguardCantRename" >>

\* TRUE iff the detector with that code matches class c of the loaded program.
Detects(code, c) ==
  CASE code = "Annotations" -> ~input.rename_annotations /\ is_annotation(c)
    [] code = "Annotated" ->
         \E a \in build_dont_rename_annotated(input, LoadedNames) :
           has_anno(LoadedProgramAnnos, c, a)
    [] code = "Resources" -> c \in build_dont_rename_resources(input, LoadedNames)
    [] code = "Specific" -> c \in input.dont_rename_specific
    [] code = "Packages" -> package_hit(input.dont_rename_packages, 1, c) # 0
    [] code = "ClassForNameLiterals" ->
         c \in build_dont_rename_class_for_name_literals(input)
    [] code = "ClassForTypesWithReflection" ->
         c \in build_dont_rename_for_types_with_reflection(input, LoadedNames, LoadedNames)
    [] code = "Canaries" -> c \in build_dont_rename_canaries(input, LoadedNames)
    [] code = "NativeBindings" -> c \in build_dont_rename_native_bindings(input)
    [] code = "Hierarchy" ->
         c \in DOMAIN build_dont_rename_hierarchies(input, LoadedNames, LoadedNames)
    [] code = "ProguardCantRename" -> ~can_rename_if_ignoring_blanket_keep(input, c)

\* The positions in DetectorOrder of the detectors that match c.
Hits(c) == { k \in DOMAIN DetectorOrder : Detects(DetectorOrder[k], c) }

\* The least of a set of positions, 0 for the empty set.
Least(ks) == IF ks = {} THEN 0 ELSE CHOOSE k \in ks : \A j \in ks : k <= j

\* TRUE iff the decision map holds for c what position k says: no record
\* for 0, the record of the k-th detector otherwise.
RecordedAs(c, k) ==
  IF k = 0 THEN c \notin DOMAIN m_dont_rename_reasons
  ELSE /\ c \in DOMAIN m_dont_rename_reasons
       /\ m_dont_rename_reasons[c].code = DetectorOrder[k]

\* C1: once eval_classes has run, every class in scope has the record of the
\* first detector, in the order Annotations, Annotated, Resources, Specific,
\* Packages, ClassForNameLiterals, ClassForTypesWithReflection, Canaries,
\* NativeBindings, Hierarchy, ProguardCantRename, that matches it, and no
\* record when none matches; only classes in scope have a record.
FirstMatchingDetectorWins ==
  pc # "idle" =>
    /\ DOMAIN m_dont_rename_reasons \subseteq Range(input.scope)
    /\ \A c \in Range(input.scope) : RecordedAs(c, Least(Hits(c)))

\* C1's case: one class matched by three or more detectors, none of them the
\* first of the order, and one class matched by none.
FirstMatchingDetectorWinsWitness ==
  /\ pc = "evaluated"
  /\ \E c, d \in Range(input.scope) :
       /\ Cardinality(Hits(c)) >= 3
       /\ Least(Hits(c)) > 2
       /\ m_dont_rename_reasons[c].code = DetectorOrder[Least(Hits(c))]
       /\ Hits(d) = {}
       /\ d \notin DOMAIN m_dont_rename_reasons

\* The base-62 alphabet: 0-9, then A-Z, then a-z.
Alphabet == "0123456789ABCDEFGHIJKLMNOPQRSTUVWXYZabcdefghijklmnopqrstuvwxyz"

\* The digit of value d.
Digit(d) == CharAt(Alphabet, d)

\* The canonical base-62 numeral of n >= 0: most significant digit first, no
\* leading zero digit.
RECURSIVE Numeral(_)
Numeral(n) ==
  IF n < BASE THEN Digit(n) ELSE Numeral(n \div BASE) \o Digit(n % BASE)

\* s left-padded with '0' to width w.
LeftPad(s, w) == Repeat("0", w - Len(s)) \o s

\* TRUE iff the i-th class of the scope has no record.
Eligible(i) == input.scope[i] \notin DOMAIN m_dont_rename_reasons

\* The number of classes without a record before position i of the scope.
EligibleBefore(i) == Cardinality({ j \in 1..(i - 1) : Eligible(j) })

\* C2: after a run that went through its commit phase, the k-th class of the
\* scope without a record (k from 0) is named LX/<Numeral(k) left-padded
\* with '0' to s_padding>;, these names are pairwise distinct, a class with a
\* record has the name it was loaded with, and s_sequence is the number of
\* classes without a record.
EligibleClassesNamedInOrder ==
  pc = "committed" =>
    /\ \A i \in DOMAIN input.scope :
         tname[input.scope[i]] =
           IF Eligible(i)
             THEN "LX/" \o LeftPad(Numeral(EligibleBefore(i)), s_padding) \o ";"
             ELSE input.scope[i]
    /\ \A i, j \in DOMAIN input.scope :
         (i # j /\ Eligible(i) /\ Eligible(j)) =>
           tname[input.scope[i]] # tname[input.scope[j]]
    /\ s_sequence = EligibleBefore(Len(input.scope) + 1)

\* C2's case: a committed run of width 2 in which a class kept its name, a
\* one-digit identifier was padded and a two-digit one was not.
EligibleClassesNamedInOrderWitness ==
  /\ pc = "committed"
  /\ s_padding = 2
  /\ \E i, j, k \in DOMAIN input.scope :
       /\ ~Eligible(i) /\ i < j /\ tname[input.scope[i]] = input.scope[i]
       /\ tname[input.scope[j]] = "LX/0z;"
       /\ tname[input.scope[k]] = "LX/10;"

\* The value of a digit of the alphabet.
DigitValue(ch) == CHOOSE d \in 0..(BASE - 1) : Digit(d) = ch

\* The number a numeral over the alphabet denotes.
RECURSIVE NumeralValue(_)
NumeralValue(s) ==
  IF s = "" THEN 0
  ELSE NumeralValue(chop(s)) * BASE + DigitValue(CharAt(s, Len(s) - 1))

\* The Identifier range [0, 62^3).
InIdentRange(n) == n >= 0 /\ n < BASE * BASE * BASE

\* The encodings the specification lists.
IdentExamples ==
  { <<0, "0">>, <<9, "9">>, <<10, "A">>, <<35, "Z">>, <<36, "a">>,
    <<61, "z">>, <<62, "10">> }

IdentAbortsOutsideRange ==
  (out.called /\ ~InIdentRange(num)) => (out.abort /\ out.str = "")

\* What the first loop of rename_classes does from the current state.
LoopFromHere ==
  rename_classes_loop(input, run_pass_start(metrics, tname, ttable, strings),
                      m_dont_rename_reasons,
                      padding_width(Len(input.scope), 0), ndebug,
                      unpackage_private_annos(input, ttable, annos))

\* TRUE iff a run that ends as r leaves the names and the rename file this
\* step leaves.
SameNamesAndFile(r) == r.st.tname = tname' /\ r.mapfile = mapfile'

\* TRUE iff every run of run_pass from the current state, whatever addresses
\* its strings get, leaves the names and the rename file this step leaves.
EveryRunAgrees(looped) ==
  \A addr \in AddressOrders(input.scope, DOMAIN looped.st.class_name_map) :
    SameNamesAndFile(
      rename_classes_finish(input, looped, access, metafile(input.path),
                            map_order(DOMAIN looped.st.class_name_map, addr)))

\* C5, as the specification states it: two runs of the pass on the same
\* scope, configuration and scope order end with the same descriptor for
\* every class and the same lines in the same order in the rename file.
RunsWriteTheSameFile ==
  [][(pc = "evaluated" /\ pc' = "committed") => EveryRunAgrees(LoopFromHere)]_vars

\* The annotations when the Signature rewrite starts: as loaded, with the
\* access flags of the InnerClass annotations fixed by unpackage_private.
AnnosBeforeRewrite ==
  unpackage_private_annos(input, LoadedNames, LoadedProgramAnnos).annos

\* The classes the run has renamed.
Renamed == { c \in Range(input.scope) : c \notin DOMAIN m_dont_rename_reasons }

\* The strings in the pool when the pass starts.
LoadedStrings == KnownTypes(input) \cup AnnoStrings(Classes(input)) \cup input.extra_strings

\* TRUE iff the array types of c are known types in every dimension up to dim.
KnownUpTo(c, dim) == \A e \in 1..dim : ArrayName(c, e) \in KnownTypes(input)

\* One entry of an array after the rewrite.
EntryAfterRewrite(before) ==
  IF before.evtype = "DEVT_STRING" /\ alias_has(aliases, before.string)
    THEN EvString(alias_at(aliases, before.string))
    ELSE before

\* One element of an annotation of class c after the rewrite.
ElemAfterRewrite(c, type, before) ==
  IF /\ c \in Range(input.scope)
     /\ type = SignatureAnno
     /\ before.encoded_value.evtype = "DEVT_ARRAY"
    THEN Elem(before.string,
              EvArray([k \in DOMAIN before.encoded_value.evalues |->
                         EntryAfterRewrite(before.encoded_value.evalues[k])]))
    ELSE before

\* C6: after a committed run, in the Signature annotations of the scope every
\* string entry of an array-valued element that is a key of the alias
\* registry is its alias, whichever class the key names; every other entry,
\* every element that is no array and every annotation of another type is as
\* it was when the rewrite started; the keys that are class names map to the
\* new names and the keys that are class names without ';' to the new names
\* without ';'.
SignatureStringsRewritten ==
  pc = "committed" =>
    /\ DOMAIN annos = DOMAIN AnnosBeforeRewrite
    /\ \A c \in DOMAIN annos :
         /\ DOMAIN annos[c] = DOMAIN AnnosBeforeRewrite[c]
         /\ \A a \in DOMAIN annos[c] :
              /\ annos[c][a].type = AnnosBeforeRewrite[c][a].type
              /\ annos[c][a].elems =
                   [e \in DOMAIN AnnosBeforeRewrite[c][a].elems |->
                      ElemAfterRewrite(c, AnnosBeforeRewrite[c][a].type,
                                       AnnosBeforeRewrite[c][a].elems[e])]
    /\ \A c \in Renamed :
         /\ alias_has(aliases, c) /\ alias_at(aliases, c) = tname[c]
         /\ chop(c) \in LoadedStrings =>
              (alias_has(aliases, chop(c)) /\ alias_at(aliases, chop(c)) = chop(tname[c]))
    /\ \A c \in Range(input.scope) \ Renamed :
         ~alias_has(aliases, c) /\ ~alias_has(aliases, chop(c))

\* C6's case: Foo and Bar renamed to LX/0; and LX/1;, the Signature of Foo
\* reading "LX/0" "<" "LX/1;" ">", its integer entry and its element that is
\* no array as before, and the annotation of another type on Bar as before.
SignatureStringsRewrittenWitness ==
  /\ pc = "committed"
  /\ input.scope = ScopeSig
  /\ tname["Lcom/a/Foo;"] = "LX/0;" /\ tname["Lcom/a/Bar;"] = "LX/1;"
  /\ SubSeq(annos["Lcom/a/Foo;"][1].elems[1].encoded_value.evalues, 1, 4) =
       << EvString("LX/0"), EvString("<"), EvString("LX/1;"), EvString(">") >>
  /\ annos["Lcom/a/Foo;"][1].elems[1].encoded_value.evalues[6] = EvInt(7)
  /\ annos["Lcom/a/Foo;"][1].elems[1].encoded_value.evalues[7] = EvString("LX/3;")
  /\ annos["Lcom/a/Foo;"][1].elems[2] = Elem("other", EvString("Lcom/a/Bar;"))
  /\ annos["Lcom/a/Bar;"][1] = LoadedAnnos("Lcom/a/Bar;")[1]

\* C7, as the specification states it: when a class is renamed and its
\* two-dimensional array type is a known type, the registry maps the one-
\* and the two-dimensional array name to those of the new name.
TwoDimensionalArrayAliased ==
  pc = "committed" =>
    \A c \in Renamed :
      ArrayName(c, 2) \in KnownTypes(input) =>
        \A d \in 1..2 :
          /\ ArrayName(c, d) \in DOMAIN aliases.extras_map
          /\ aliases.extras_map[ArrayName(c, d)] = ArrayName(tname[c], d)

\* C7, amended: after a committed run the registry maps the d-dimensional
\* array name of a renamed class to the d-dimensional array name of its new
\* name exactly when the array types of every dimension from 1 to d are
\* known types -- so to both [Foo and [[Foo when both are known, and to
\* neither when [[Foo is known and [Foo is not; a class that kept its name
\* has no array alias.
ArrayAliasesBelowFirstUnknownDimension ==
  pc = "committed" =>
    /\ \A c \in Renamed : \A d \in 1..(MaxDim + 1) :
         IF KnownUpTo(c, d)
           THEN /\ ArrayName(c, d) \in DOMAIN aliases.extras_map
                /\ aliases.extras_map[ArrayName(c, d)] = ArrayName(tname[c], d)
                /\ tname[ArrayName(c, d)] = ArrayName(tname[c], d)
           ELSE ArrayName(c, d) \notin DOMAIN aliases.extras_map
    /\ \A c \in Range(input.scope) \ Renamed : \A d \in 1..(MaxDim + 1) :
         ArrayName(c, d) \notin DOMAIN aliases.extras_map

\* C7's case: Foo renamed, its array types known in dimensions 1 and 2 and
\* unknown in dimension 3: the registry holds [Foo and [[Foo and not [[[Foo.
ArrayAliasesBelowFirstUnknownDimensionWitness ==
  /\ pc = "committed"
  /\ "Lcom/a/Foo;" \in Renamed
  /\ input.array_types = { "[Lcom/a/Foo;", "[[Lcom/a/Foo;" }
  /\ aliases.extras_map["[Lcom/a/Foo;"] = "[" \o tname["Lcom/a/Foo;"]
  /\ aliases.extras_map["[[Lcom/a/Foo;"] = "[[" \o tname["Lcom/a/Foo;"]
  /\ "[[[Lcom/a/Foo;" \notin DOMAIN aliases.extras_map

\* The position of a detector in DetectorOrder.
Position(code) == CHOOSE k \in DOMAIN DetectorOrder : DetectorOrder[k] = code

\* TRUE iff c has the record of that detector, or an earlier detector
\* matches c.
ExcludedAs(code, c) ==
  (\A k \in Hits(c) : k >= Position(code)) =>
    (c \in DOMAIN m_dont_rename_reasons /\ m_dont_rename_reasons[c].code = code)

\* The native methods of the classes in scope.
NativeMethods(c) == { meth \in Methods(c) : meth.native }

\* TRUE iff a native method of the scope has u as return type, as an
\* argument type, or as the element type of a one-dimensional array in its
\* proto, or u itself has a native method.
NativeMentions(u) ==
  \/ NativeMethods(u) # {}
  \/ \E c \in Range(input.scope) : \E meth \in NativeMethods(c) :
       \/ meth.rtype \in { u, "[" \o u }
       \/ \E i \in DOMAIN meth.args : meth.args[i] \in { u, "[" \o u }

\* C8, as the specification states it: a class in scope with a native method
\* and the element class of that method's array return type are excluded as
\* NativeBindings unless an earlier detector matches them; a class that
\* native protos mention only as the element of a two-dimensional array
\* argument is not excluded as NativeBindings.
NativeReturnTypeExcluded ==
  pc # "idle" =>
    \A n \in Range(input.scope) : \A meth \in NativeMethods(n) :
      /\ ExcludedAs("NativeBindings", n)
      /\ \A t \in Range(input.scope) :
           meth.rtype = "[" \o t => ExcludedAs("NativeBindings", t)
      /\ \A u \in Range(input.scope) :
           ((\E i \in DOMAIN meth.args : meth.args[i] = "[[" \o u)
              /\ ~NativeMentions(u)) =>
             ~(u \in DOMAIN m_dont_rename_reasons
                 /\ m_dont_rename_reasons[u].code = "NativeBindings")

\* The configured packages whose "L<pkg>" the name of c begins with.
PrefixPackages(c) ==
  { input.dont_rename_packages[i] : i \in
      { j \in DOMAIN input.dont_rename_packages :
          OccursAt(c, "L" \o input.dont_rename_packages[j], 0) } }

\* C9, as the specification states it: a class whose name begins with "L"
\* and a configured package, and which none of Annotations, Annotated,
\* Resources and Specific matches, has the record Packages with such a
\* package as rule.
PackagePrefixExcluded ==
  pc # "idle" =>
    \A c \in Range(input.scope) :
      (PrefixPackages(c) # {} /\ \A k \in Hits(c) : k >= Position("Packages")) =>
        /\ c \in DOMAIN m_dont_rename_reasons
        /\ m_dont_rename_reasons[c].code = "Packages"
        /\ m_dont_rename_reasons[c].rule \in PrefixPackages(c)

\* The configured hierarchy roots that are no comment and name a type with a
\* class, and those among them that are c or an ancestor of c.
ResolvableRoots ==
  { r \in Range(input.dont_rename_hierarchies) :
      CharAt(r, 0) # "#" /\ r \in KnownTypes(input) /\ r \in AllClasses }
RootsOf(c) == { r \in ResolvableRoots : r = c \/ r \in Ancestors(c) }

\* The number of configured roots that are no comment and name no type, and
\* of those that name a type without a class.
MissingRootTypes ==
  Cardinality({ i \in DOMAIN input.dont_rename_hierarchies :
                  /\ CharAt(input.dont_rename_hierarchies[i], 0) # "#"
                  /\ input.dont_rename_hierarchies[i] \notin KnownTypes(input) })
MissingRootClasses ==
  Cardinality({ i \in DOMAIN input.dont_rename_hierarchies :
                  /\ CharAt(input.dont_rename_hierarchies[i], 0) # "#"
                  /\ input.dont_rename_hierarchies[i] \in KnownTypes(input)
                  /\ input.dont_rename_hierarchies[i] \notin AllClasses })

\* The value of a metric, 0 when it was never incremented.
Metric(name) == IF name \in DOMAIN metrics THEN metrics[name] ELSE 0

\* C10: once eval_classes has run, a class that is a resolvable configured
\* root or has one among its ancestors has the record Hierarchy, with such a
\* root's name as rule, unless an earlier detector matches it; any other
\* class has no Hierarchy record; each eval_pass adds one to the
\* missing-types counter per root that names no type and one to the
\* missing-classes counter per root that names a type without a class, and
\* nothing for a '#' entry; and no such entry aborts the run.
HierarchyClosureExcluded ==
  pc # "idle" =>
    /\ \A c \in Range(input.scope) :
         IF RootsOf(c) # {}
           THEN /\ ExcludedAs("Hierarchy", c)
                /\ (c \in DOMAIN m_dont_rename_reasons
                      /\ m_dont_rename_reasons[c].code = "Hierarchy") =>
                     m_dont_rename_reasons[c].rule \in RootsOf(c)
           ELSE ~(c \in DOMAIN m_dont_rename_reasons
                    /\ m_dont_rename_reasons[c].code = "Hierarchy")
    /\ Metric(METRIC_MISSING_HIERARCHY_TYPES) = evals * MissingRootTypes
    /\ Metric(METRIC_MISSING_HIERARCHY_CLASSES) = evals * MissingRootClasses
    /\ (input.extra_strings = {} /\ input.writable) => pc # "aborted"

\* C10's case: a committed run whose roots are an unknown name, a comment, a
\* type without a class and C1: one missing type and one missing class are
\* counted, C1 and its child C2 are excluded by rule C1, B and D are renamed.
HierarchyClosureExcludedWitness ==
  /\ pc = "committed"
  /\ evals = 1
  /\ input.dont_rename_hierarchies = << "Lh/Missing;", "#", "Lh/NoCls;", "Lh/C1;" >>
  /\ input.dont_rename_specific = {}
  /\ metrics[METRIC_MISSING_HIERARCHY_TYPES] = 1
  /\ metrics[METRIC_MISSING_HIERARCHY_CLASSES] = 1
  /\ m_dont_rename_reasons["Lh/C1;"] = Reason("Hierarchy", "Lh/C1;")
  /\ m_dont_rename_reasons["Lh/C2;"] = Reason("Hierarchy", "Lh/C1;")
  /\ tname["Lh/B;"] = "LX/0;"
  /\ tname["Lh/D;"] = "LX/1;"

\* C11: after a run that went through its commit phase, the new names of any
\* two renamed classes are equally long, so their zero-padded identifiers are
\* equally wide, whatever the size of the scope and the number of classes
\* without a record.
RenamedDescriptorsEquallyWide ==
  pc = "committed" =>
    \A c, d \in Renamed :
      /\ tname[c] # c
      /\ Len(tname[c]) = Len(tname[d])

\* C11's case: a committed run on more classes than one digit can number, all
\* of them renamed: the identifier 61 is padded to "0z" and the identifier 62
\* is the two digits "10".
RenamedDescriptorsEquallyWideWitness ==
  /\ pc = "committed"
  /\ Len(input.scope) > BASE
  /\ Renamed = Range(input.scope)
  /\ \E c, d \in Renamed : tname[c] = "LX/0z;" /\ tname[d] = "LX/10;"

\* The least p with BASE^p >= n, for n >= 1: ceil(log62(n)).
LeastPower(n) ==
  CHOOSE p \in 0..n : BASE^p >= n /\ \A q \in 0..(p - 1) : BASE^q < n

\* The width of the identifier part of a generated descriptor "LX/<...>;".
IdentWidth(name) == Len(name) - Len("LX/;")

\* C12 as stated: the padding width of a run that renames at least one class
\* is the least p with 62^p >= E, E being the number of classes without a
\* record, and every descriptor of the run is formatted with it.
PaddingFromEligibleCount ==
  (pc = "committed" /\ Renamed # {}) =>
    /\ s_padding = LeastPower(Cardinality(Renamed))
    /\ \A c \in Renamed :
         IdentWidth(tname[c]) = IF s_padding = 0 THEN 1 ELSE s_padding

\* C12, amended: the padding width of a run is the least p with 62^p >= N, N
\* being the number of classes in scope, with or without a record; every
\* descriptor of the run is formatted with this one width (an identifier has
\* at least one digit, so the width-0 run of a single class prints one).
PaddingFromScopeSize ==
  pc \in {"committed", "aborted"} =>
    /\ s_padding = LeastPower(Len(input.scope))
    /\ pc = "committed" =>
         \A c \in Renamed :
           IdentWidth(tname[c]) = IF s_padding = 0 THEN 1 ELSE s_padding

\* C12's case: a committed run on BASE + 1 classes of which one has a record:
\* the BASE classes without a record would fit one digit, the width is 2.
PaddingFromScopeSizeWitness ==
  /\ pc = "committed"
  /\ Len(input.scope) = BASE + 1
  /\ Cardinality(Renamed) = BASE
  /\ s_padding = 2
  /\ \E c \in Renamed : tname[c] = "LX/0z;"

\* The reason codes whose metric is kept per rule.
PerRuleCodes == { "Annotated", "Packages", "Hierarchy" }

\* C13 as stated: once eval_classes has run, a record with a non-empty rule
\* has one of the codes Annotated, Packages, Hierarchy.
RuleOnlyForPerRuleCodes ==
  pc # "idle" =>
    \A c \in DOMAIN m_dont_rename_reasons :
      m_dont_rename_reasons[c].rule # "" =>
        m_dont_rename_reasons[c].code \in PerRuleCodes

\* C13, amended: once eval_classes has run, a record with a non-empty rule
\* has one of the codes Annotated, Packages, Hierarchy, Specific; the rule
\* of a Specific record is the name of its class; a record of any other code
\* has the empty rule.
RuleOnlyForPerRuleCodesAndSpecific ==
  pc # "idle" =>
    \A c \in DOMAIN m_dont_rename_reasons :
      /\ m_dont_rename_reasons[c].rule # "" =>
           m_dont_rename_reasons[c].code \in PerRuleCodes \cup {"Specific"}
      /\ m_dont_rename_reasons[c].code = "Specific" =>
           m_dont_rename_reasons[c].rule = LoadedNames[c]
      /\ m_dont_rename_reasons[c].code \in
           { "Annotations", "Resources", "ClassForNameLiterals", "Canaries",
             "NativeBindings", "ClassForTypesWithReflection",
             "ProguardCantRename" } =>
           m_dont_rename_reasons[c].rule = ""

\* C13's case: an evaluation that left a Specific record carrying the name of
\* its class next to a NativeBindings record with the empty rule.
RuleOnlyForPerRuleCodesAndSpecificWitness ==
  /\ pc = "evaluated"
  /\ \E c, e \in DOMAIN m_dont_rename_reasons :
       /\ m_dont_rename_reasons[c] = Reason("Specific", c)
       /\ m_dont_rename_reasons[e] = Reason("NativeBindings", "")

\* C14: a step of the commit phase leaves the decision map as it is, and a
\* step of the evaluate phase changes nothing but the decision map: no type
\* name, type or string, no access flag, no annotation, no allocator static,
\* no alias, no rename file and no metric; so the names and the metrics a
\* commit ends with do not depend on how often eval_pass ran before it.
PhasesKeepTheirFrames ==
  [][ /\ (pc = "evaluated" /\ pc' \in {"committed", "aborted"}) =>
           m_dont_rename_reasons' = m_dont_rename_reasons
      /\ pc' = "evaluated" =>
           /\ UNCHANGED << tname, ttable, strings, access, annos, aliases, mapfile >>
           /\ UNCHANGED << s_sequence, s_padding, s_base_strings_size,
                           s_ren_strings_size >>
           /\ metrics' = metrics ]_vars

====
